---- MODULE Spec2Model ----
(***************************************************************************)
(* model-proxy: a caching reverse proxy in front of hosted language-model  *)
(* HTTP APIs.  The module models                                           *)
(*   - cache.ResponseCache   (src/cache/response-cache.go, lines 1-48)     *)
(*   - cache.StreamResponse  (src/cache/response-cache.go, lines 50-90)    *)
(*   - the request handler of main() and ServiceResolver.GetReverseProxy   *)
(*     (src/main.go)                                                       *)
(*   - generateCacheKey on its own, and sseTransport / sseReader with the  *)
(*     miss path followed chunk by chunk (src/main.go)                     *)
(* The specifications share the variables; each one drives one part and   *)
(* leaves the variables of the other parts at their initial values.        *)
(***************************************************************************)
EXTENDS Integers, Sequences, FiniteSets, TLC

\* ------------------------------------------------------------------ bounds
MaxCap == 2
MaxWrites == 3
MaxCloses == 2
MaxStreams == 2
NumReqs == 2
MaxKeyLen == 2
MaxChunks == 3

\* ------------------------------------------------------------ value spaces
Keys == {"k1", "k2"}
NoHeaders == <<>>
CacheValues ==
    { [Body |-> b, Headers |-> NoHeaders] : b \in {"", "v1", "v2"} }
NoEntry == [Body |-> "", Headers |-> NoHeaders]
NoStream == [id |-> 0, cap |-> 0]
Callers == {"g1", "g2"}
Consumers == {"r1", "r2"}
NoCaller == "none"

VARIABLES
    \* cache.ResponseCache
    nonStreams,     \* map[string]entry   : key -> buffered entry
    streams,        \* map[string]*StreamResponse : key -> stream handle
    got,            \* what the last Get / GetStream call returned
    lastSet,        \* history, per key: the value of the most recent completed
                    \* Set, and whether there was none, one or several (n)
    nStreams,       \* history: number of StreamResponse objects allocated
    cmu,            \* c.mu, the RWMutex of the cache: the goroutines holding it
                    \* for writing and for reading
    \* cache.StreamResponse (one object)
    sCap,           \* cap(dataChan), the bufferSize given to NewStreamResponse
    dataChan,       \* the chunks buffered in the channel, oldest first
    chanClosed,     \* close(dataChan) has run
    closed,         \* sr.closed
    mu,             \* the goroutine holding sr.Mutex, or NoCaller
    cpc,            \* per calling goroutine: where it is in WriteChunk / Close
    carg,           \* per calling goroutine: the chunk of its WriteChunk call
    rpc,            \* per consumer: idle, ranging over ReadChunks(), or done
    delivered,      \* per consumer: the chunks it received, in order
    nextChunk,      \* history: number of WriteChunk calls issued (chunk ids)
    nCloseCalls,    \* history: number of Close calls issued
    closedAtCall,   \* history: chunks whose WriteChunk was called when closed
    passedOpen,     \* history: chunks whose WriteChunk found the stream Open
    callsBy,        \* history: the goroutines that have called WriteChunk or Close
    nSignals,       \* history: number of times close(dataChan) has run
    panicked,       \* a goroutine hit a runtime panic (send on / close of a closed channel)
    \* the request handler of main(), one worker per request
    hpc,            \* per request: where its handler is
    hreq,           \* per request: the inbound request (credential, path, body, reads)
    hbody,          \* per request: what r.Body yields now
    hkey,           \* per request: the cache key derived for it
    hrec,           \* per request: the httptest recorder (captured upstream response)
    hout,           \* per request: the response the handler has prepared
                    \* (headers set on w, body read) and is about to write
    hresp,          \* per request: the response written to the client
    hcalls,         \* per request: number of upstream round trips made for it
    hmiss,          \* per request: cache.Get reported not found
    doneBefore,     \* history, per request: the requests completed when it arrived
    hloop,          \* per request: the w.Write calls of its hit, stream-hit or miss
                    \* path (how many, whether one failed) and the chunks it
                    \* received from a stream
    \* generateCacheKey applied to two requests
    kin,            \* the two (credential, path, body) triples
    kout,           \* the two keys derived, <<>> before the derivation
    \* one proxied request followed chunk by chunk (sseTransport, sseReader)
    sin,            \* the request and what upstream answers it with
    spc,            \* where the round trip is
    srtErr,         \* the error sseTransport.RoundTrip returned, "" for none
    swrapped,       \* resp.Body was replaced by an sseReader
    supLeft,        \* the chunks upstream has not emitted yet
    supReads,       \* number of chunks read from the upstream body
    sbodyFlushes,   \* number of Flush calls sseReader made
    srec,           \* the httptest recorder: status, headers and chunks captured
    sstatus,        \* the status and headers written to the client
    sclient         \* the writes the client has received, each a sequence of chunks

cacheVars == <<nonStreams, streams, got, lastSet, nStreams, cmu>>
streamVars == <<sCap, dataChan, chanClosed, closed, mu, cpc, carg, rpc, delivered,
                nextChunk, nCloseCalls, closedAtCall, passedOpen, callsBy,
                nSignals, panicked>>
handlerVars == <<hpc, hreq, hbody, hkey, hrec, hout, hresp, hcalls, hmiss,
                 doneBefore, hloop>>
keyVars == <<kin, kout>>
sseVars == <<sin, spc, srtErr, swrapped, supLeft, supReads, sbodyFlushes, srec,
             sstatus, sclient>>
unitVars == <<keyVars, sseVars>>
vars == <<cacheVars, streamVars, handlerVars, unitVars>>

\* --------------------------------------------------------------- helpers
Range(s) == { s[i] : i \in 1..Len(s) }

\* ------------------------------------------------- cache.ResponseCache
\* NewResponseCache: both maps empty.
EmptyMap == [k \in {} |-> NoEntry]

\* c.nonStreams[key] = value
MapSetMerge(m, key, value) ==
    [k \in DOMAIN m \cup {key} |-> IF k \in DOMAIN m THEN m[k] ELSE value]
MapSet(m, key, value) ==
    [k \in DOMAIN m \cup {key} |-> IF k = key THEN value ELSE m[k]]

\* val, exists := c.nonStreams[key]  (the zero value when the key is absent)
MapGet(m, key, zero) ==
    [found |-> key \in DOMAIN m,
     val |-> IF key \in DOMAIN m THEN m[key] ELSE zero]

NoResult == [op |-> "none", key |-> "", found |-> FALSE, val |-> NoEntry]

\* the record the history keeps for a key
LastSetOf(key) ==
    IF key \in DOMAIN lastSet THEN lastSet[key] ELSE [n |-> 0, val |-> NoEntry]

\* sync.RWMutex: the goroutine that holds it for writing (at most one) and
\* those that hold it for reading.  A goroutine is named by its kind and a
\* number: the handler of request r, or any other caller of the cache.
RequestHandler(r) == <<"handler", r>>
AnyCaller == <<"caller", 0>>
RWFree == [writer |-> {}, readers |-> {}]
Holders(m) == m.writer \cup m.readers
CanLock(m) == m.writer = {} /\ m.readers = {}
CanRLock(m) == m.writer = {}
Lock(m, w) == [m EXCEPT !.writer = {w}]
UnlockNever(m, w) == m
Unlock(m, w) == [m EXCEPT !.writer = {}]
RLock(m, w) == [m EXCEPT !.readers = @ \cup {w}]
RUnlock(m, w) == [m EXCEPT !.readers = @ \ {w}]

InitCache ==
    /\ cmu = RWFree
    /\ nonStreams = EmptyMap
    /\ streams = EmptyMap
    /\ got = NoResult
    /\ lastSet = [k \in {} |-> [n |-> 0, val |-> NoEntry]]
    /\ nStreams = 0

\* The four operations of the cache.  Each takes c.mu on entry and releases
\* it by defer on return; its body touches one map.  XxxBody is the body,
\* Xxx the whole call as one step, CacheLock / CacheRLock and XxxUnlock the
\* call as two steps: the lock taken, then the body and the release.

\* c.nonStreams[key] = value
SetBody(key, value) ==
    /\ nonStreams' = MapSet(nonStreams, key, value)
    /\ lastSet' = [k \in DOMAIN lastSet \cup {key} |->
                       IF k = key
                         THEN [n |-> IF LastSetOf(key).n = 0 THEN 1 ELSE 2,
                               val |-> value]
                         ELSE lastSet[k]]
    /\ UNCHANGED <<streams, got, nStreams>>

\* stream := NewStreamResponse(bufferSize); c.streams[key] = stream
SetStreamBody(key, bufferSize) ==
    /\ nStreams < MaxStreams
    /\ nStreams' = nStreams + 1
    /\ streams' = MapSet(streams, key, [id |-> nStreams + 1, cap |-> bufferSize])
    /\ got' = [op |-> "SetStream", key |-> key, found |-> TRUE,
               val |-> [id |-> nStreams + 1, cap |-> bufferSize]]
    /\ UNCHANGED <<nonStreams, lastSet>>

\* val, exists := c.nonStreams[key]
GetBody(key) ==
    /\ got' = [op |-> "Get", key |-> key] @@ MapGet(nonStreams, key, NoEntry)
    /\ UNCHANGED <<nonStreams, streams, lastSet, nStreams>>

\* val, exists := c.streams[key]
GetStreamBody(key) ==
    /\ got' = [op |-> "GetStream", key |-> key] @@ MapGet(streams, key, NoStream)
    /\ UNCHANGED <<nonStreams, streams, lastSet, nStreams>>

\* func (c *ResponseCache) Set(key, value)
Set(key, value) ==
    /\ CanLock(cmu)
    /\ cmu' = Unlock(Lock(cmu, AnyCaller), AnyCaller)
    /\ SetBody(key, value)

\* func (c *ResponseCache) SetStream(key, bufferSize) *StreamResponse
SetStream(key, bufferSize) ==
    /\ CanLock(cmu)
    /\ cmu' = Unlock(Lock(cmu, AnyCaller), AnyCaller)
    /\ SetStreamBody(key, bufferSize)

\* func (c *ResponseCache) Get(key) ([]byte, bool)
Get(key) ==
    /\ CanRLock(cmu)
    /\ cmu' = RUnlock(RLock(cmu, AnyCaller), AnyCaller)
    /\ GetBody(key)

\* func (c *ResponseCache) GetStream(key) (*StreamResponse, bool)
GetStream(key) ==
    /\ CanRLock(cmu)
    /\ cmu' = RUnlock(RLock(cmu, AnyCaller), AnyCaller)
    /\ GetStreamBody(key)

\* c.mu.Lock() at the head of Set and SetStream, by goroutine w: it waits
\* until no goroutine holds the lock
CacheLock(w) ==
    /\ w \notin Holders(cmu)
    /\ CanLock(cmu)
    /\ cmu' = Lock(cmu, w)
    /\ UNCHANGED <<nonStreams, streams, got, lastSet, nStreams>>

\* c.mu.RLock() at the head of Get and GetStream, by goroutine w: it waits
\* while a goroutine holds the lock for writing
CacheRLock(w) ==
    /\ w \notin Holders(cmu)
    /\ CanRLock(cmu)
    /\ cmu' = RLock(cmu, w)
    /\ UNCHANGED <<nonStreams, streams, got, lastSet, nStreams>>

\* the body of each operation and its deferred c.mu.Unlock() / RUnlock(), by
\* the goroutine w that holds the lock
SetUnlock(w, key, value) ==
    /\ w \in cmu.writer
    /\ cmu' = Unlock(cmu, w)
    /\ SetBody(key, value)
SetStreamUnlock(w, key, bufferSize) ==
    /\ w \in cmu.writer
    /\ cmu' = Unlock(cmu, w)
    /\ SetStreamBody(key, bufferSize)
GetUnlock(w, key) ==
    /\ w \in cmu.readers
    /\ cmu' = RUnlock(cmu, w)
    /\ GetBody(key)
GetStreamUnlock(w, key) ==
    /\ w \in cmu.readers
    /\ cmu' = RUnlock(cmu, w)
    /\ GetStreamBody(key)

\* ------------------------------------------------- cache.StreamResponse
\* NewStreamResponse(bufferSize): make(chan []byte, bufferSize), closed false.
InitStream ==
    /\ sCap \in 0..MaxCap
    /\ dataChan = <<>>
    /\ chanClosed = FALSE
    /\ closed = FALSE
    /\ mu = NoCaller
    /\ cpc = [p \in Callers |-> "idle"]
    /\ carg = [p \in Callers |-> 0]
    /\ rpc = [c \in Consumers |-> "idle"]
    /\ delivered = [c \in Consumers |-> <<>>]
    /\ nextChunk = 0
    /\ nCloseCalls = 0
    /\ closedAtCall = {}
    /\ passedOpen = {}
    /\ callsBy = {}
    /\ nSignals = 0
    /\ panicked = FALSE

\* A buffered send completes without a receiver only while the buffer has room.
ChanHasRoomUnbounded(buf, capacity) == TRUE
ChanHasRoom(buf, capacity) == Len(buf) < capacity

\* The order in which a receive takes chunks out of the channel: the oldest.
ChanNewest(buf) == buf[Len(buf)]
ChanHead(buf) == buf[1]
ChanKeep(buf) == buf
ChanRest(buf) == Tail(buf)

\* A goroutine calls sr.WriteChunk(chunk); chunks are numbered in call order.
CallWriteChunk(p) ==
    /\ cpc[p] = "idle"
    /\ nextChunk < MaxWrites
    /\ nextChunk' = nextChunk + 1
    /\ carg' = [carg EXCEPT ![p] = nextChunk + 1]
    /\ cpc' = [cpc EXCEPT ![p] = "w_lock"]
    /\ closedAtCall' = IF closed THEN closedAtCall \cup {nextChunk + 1}
                       ELSE closedAtCall
    /\ callsBy' = callsBy \cup {p}
    /\ UNCHANGED <<sCap, dataChan, chanClosed, closed, mu, rpc, delivered,
                   nCloseCalls, passedOpen, nSignals, panicked>>

\* sr.Lock() in WriteChunk
WriteChunkLockNoWait(p) ==
    /\ cpc[p] = "w_lock"
    /\ mu' = p
    /\ cpc' = [cpc EXCEPT ![p] = "w_check"]
    /\ UNCHANGED <<sCap, dataChan, chanClosed, closed, carg, rpc, delivered,
                   nextChunk, nCloseCalls, closedAtCall, passedOpen, callsBy,
                   nSignals, panicked>>
WriteChunkLock(p) ==
    /\ cpc[p] = "w_lock"
    /\ mu = NoCaller
    /\ mu' = p
    /\ cpc' = [cpc EXCEPT ![p] = "w_check"]
    /\ UNCHANGED <<sCap, dataChan, chanClosed, closed, carg, rpc, delivered,
                   nextChunk, nCloseCalls, closedAtCall, passedOpen, callsBy,
                   nSignals, panicked>>

\* if sr.closed { return }   (the deferred Unlock runs on return)
WriteChunkCheckNoGuard(p) ==
    /\ cpc[p] = "w_check"
    /\ cpc' = [cpc EXCEPT ![p] = "w_send"]
    /\ passedOpen' = passedOpen \cup {carg[p]}
    /\ UNCHANGED <<sCap, dataChan, chanClosed, closed, mu, carg, rpc, delivered,
                   nextChunk, nCloseCalls, closedAtCall, callsBy, nSignals,
                   panicked>>
WriteChunkCheck(p) ==
    /\ cpc[p] = "w_check"
    /\ IF closed
         THEN /\ cpc' = [cpc EXCEPT ![p] = "idle"]
              /\ carg' = [carg EXCEPT ![p] = 0]
              /\ mu' = NoCaller
              /\ UNCHANGED passedOpen
         ELSE /\ cpc' = [cpc EXCEPT ![p] = "w_send"]
              /\ passedOpen' = passedOpen \cup {carg[p]}
              /\ UNCHANGED <<carg, mu>>
    /\ UNCHANGED <<sCap, dataChan, chanClosed, closed, rpc, delivered,
                   nextChunk, nCloseCalls, closedAtCall, callsBy, nSignals,
                   panicked>>

\* sr.dataChan <- chunk into the buffer, then the deferred Unlock and return.
\* A send on a closed channel panics (the deferred Unlock still runs).
WriteChunkSend(p) ==
    /\ cpc[p] = "w_send"
    /\ chanClosed \/ ChanHasRoom(dataChan, sCap)
    /\ IF chanClosed
         THEN /\ panicked' = TRUE
              /\ UNCHANGED dataChan
         ELSE /\ dataChan' = Append(dataChan, carg[p])
              /\ UNCHANGED panicked
    /\ cpc' = [cpc EXCEPT ![p] = "idle"]
    /\ carg' = [carg EXCEPT ![p] = 0]
    /\ mu' = NoCaller
    /\ UNCHANGED <<sCap, chanClosed, closed, rpc, delivered, nextChunk,
                   nCloseCalls, closedAtCall, passedOpen, callsBy, nSignals>>

\* sr.dataChan <- chunk handed directly to a receiver waiting on the empty
\* channel (the only way a send on an unbuffered channel completes).
WriteChunkHandOff(p, c) ==
    /\ cpc[p] = "w_send"
    /\ ~chanClosed
    /\ sCap = 0
    /\ rpc[c] = "ranging"
    /\ dataChan = <<>>
    /\ delivered' = [delivered EXCEPT ![c] = Append(@, carg[p])]
    /\ cpc' = [cpc EXCEPT ![p] = "idle"]
    /\ carg' = [carg EXCEPT ![p] = 0]
    /\ mu' = NoCaller
    /\ UNCHANGED <<sCap, dataChan, chanClosed, closed, rpc, nextChunk,
                   nCloseCalls, closedAtCall, passedOpen, callsBy, nSignals,
                   panicked>>

\* A goroutine calls sr.Close().
CallClose(p) ==
    /\ cpc[p] = "idle"
    /\ nCloseCalls < MaxCloses
    /\ nCloseCalls' = nCloseCalls + 1
    /\ cpc' = [cpc EXCEPT ![p] = "c_lock"]
    /\ callsBy' = callsBy \cup {p}
    /\ UNCHANGED <<sCap, dataChan, chanClosed, closed, mu, carg, rpc, delivered,
                   nextChunk, closedAtCall, passedOpen, nSignals, panicked>>

\* sr.Lock() in Close
CloseLockNoWait(p) ==
    /\ cpc[p] = "c_lock"
    /\ mu' = p
    /\ cpc' = [cpc EXCEPT ![p] = "c_check"]
    /\ UNCHANGED <<sCap, dataChan, chanClosed, closed, carg, rpc, delivered,
                   nextChunk, nCloseCalls, closedAtCall, passedOpen, callsBy,
                   nSignals, panicked>>
CloseLock(p) ==
    /\ cpc[p] = "c_lock"
    /\ mu = NoCaller
    /\ mu' = p
    /\ cpc' = [cpc EXCEPT ![p] = "c_check"]
    /\ UNCHANGED <<sCap, dataChan, chanClosed, closed, carg, rpc, delivered,
                   nextChunk, nCloseCalls, closedAtCall, passedOpen, callsBy,
                   nSignals, panicked>>

\* close(sr.dataChan); closing a closed channel panics.
CloseChanStep(p) ==
    /\ IF chanClosed
         THEN /\ panicked' = TRUE
              /\ cpc' = [cpc EXCEPT ![p] = "idle"]
              /\ mu' = NoCaller
              /\ UNCHANGED <<chanClosed, nSignals>>
         ELSE /\ chanClosed' = TRUE
              /\ nSignals' = nSignals + 1
              /\ cpc' = [cpc EXCEPT ![p] = "c_flag"]
              /\ UNCHANGED <<mu, panicked>>

\* if !sr.closed { close(sr.dataChan); ... }
CloseCheckNoGuard(p) ==
    /\ cpc[p] = "c_check"
    /\ CloseChanStep(p)
    /\ UNCHANGED <<sCap, dataChan, closed, carg, rpc, delivered, nextChunk,
                   nCloseCalls, closedAtCall, passedOpen, callsBy>>
CloseCheck(p) ==
    /\ cpc[p] = "c_check"
    /\ IF ~closed
         THEN CloseChanStep(p)
         ELSE /\ cpc' = [cpc EXCEPT ![p] = "idle"]
              /\ mu' = NoCaller
              /\ UNCHANGED <<chanClosed, nSignals, panicked>>
    /\ UNCHANGED <<sCap, dataChan, closed, carg, rpc, delivered, nextChunk,
                   nCloseCalls, closedAtCall, passedOpen, callsBy>>

\* sr.closed = true, then the deferred Unlock and return.
CloseSetFlag(p) ==
    /\ cpc[p] = "c_flag"
    /\ closed' = TRUE
    /\ cpc' = [cpc EXCEPT ![p] = "idle"]
    /\ mu' = NoCaller
    /\ UNCHANGED <<sCap, dataChan, chanClosed, carg, rpc, delivered, nextChunk,
                   nCloseCalls, closedAtCall, passedOpen, callsBy, nSignals,
                   panicked>>

\* for chunk := range sr.ReadChunks()  -- a consumer starts ranging
StartDrain(c) ==
    /\ rpc[c] = "idle"
    /\ rpc' = [rpc EXCEPT ![c] = "ranging"]
    /\ UNCHANGED <<sCap, dataChan, chanClosed, closed, mu, cpc, carg, delivered,
                   nextChunk, nCloseCalls, closedAtCall, passedOpen, callsBy,
                   nSignals, panicked>>

\* one iteration of the range loop: receive the next buffered chunk
Recv(c) ==
    /\ rpc[c] = "ranging"
    /\ dataChan # <<>>
    /\ delivered' = [delivered EXCEPT ![c] = Append(@, ChanHead(dataChan))]
    /\ dataChan' = ChanRest(dataChan)
    /\ UNCHANGED <<sCap, chanClosed, closed, mu, cpc, carg, rpc, nextChunk,
                   nCloseCalls, closedAtCall, passedOpen, callsBy, nSignals,
                   panicked>>

\* the range loop ends: the channel is closed and empty
RecvEnd(c) ==
    /\ rpc[c] = "ranging"
    /\ dataChan = <<>>
    /\ chanClosed
    /\ rpc' = [rpc EXCEPT ![c] = "done"]
    /\ UNCHANGED <<sCap, dataChan, chanClosed, closed, mu, cpc, carg, delivered,
                   nextChunk, nCloseCalls, closedAtCall, passedOpen, callsBy,
                   nSignals, panicked>>

\* ------------------------------------------------------ the request handler
Reqs == 1..NumReqs

\* Byte strings are sequences of symbols.  A body symbol stands for a run of
\* bytes: "bad" is not JSON; "nomodel", "unk", "ja" are complete JSON objects
\* (without a model field, naming an unregistered model, naming a registered
\* model); "nl" is a newline following the object; "cut" is the beginning of
\* a JSON object whose end never arrives.
Credentials == { <<>>, <<"t">> }
Paths == { <<"/">> }
Bodies == { <<"bad">>, <<"nomodel">>, <<"unk">>, <<"ja">>, <<"ja", "nl">> }
\* the models NewOpenAIProvider registers (two of them)
RegisteredModels == {"gpt-4", "gpt-3.5-turbo"}

\* json.NewDecoder(tee).Decode(&requestBody): the first JSON value of the
\* body decides; err on an empty or malformed body.
JsonDecode(body) ==
    IF body = <<>> \/ body[1] \in {"bad", "nl", "cut"}
      THEN [err |-> TRUE, Model |-> ""]
      ELSE [err |-> FALSE,
            Model |-> CASE body[1] = "nomodel" -> ""
                        [] body[1] = "unk" -> "unknown-model-xyz"
                        [] body[1] = "ja" -> "gpt-4"]

\* The inbound requests: the body reaches the handler through Read calls, and
\* `first` is the number of symbols the Read that completes the first JSON
\* value has returned in all (the decoder stops reading at the end of that
\* value; how many of the bytes after it come with the same Read is up to the
\* connection).  `rerr`: the body reader returns an error, not io.EOF, after
\* the bytes of `body` (the client went away before the announced length).
Requests ==
    { q \in [cred : Credentials, path : Paths, body : Bodies, first : 0..2,
             rerr : {FALSE}] :
        /\ (q.cred # <<>> => q.body = <<"ja">>)
        /\ (JsonDecode(q.body).err => q.first = Len(q.body))
        /\ q.first <= Len(q.body)
        /\ (~JsonDecode(q.body).err => q.first >= 1) }

\* io.TeeReader + req.Body = io.NopCloser(&requestBodyBuffer): the body later
\* stages see is what the decoder has read.
TeeRestored(q) == SubSeq(q.body, 1, q.first)

\* r.Resolve(modelName)
ResolveAny(modelName) == TRUE
Resolve(modelName) == modelName \in RegisteredModels

\* ServiceResolver.GetReverseProxy: the error it returns, "" for none.
GetReverseProxy(q) ==
    LET d == JsonDecode(q.body) IN
    IF d.err THEN "decode"
    ELSE IF d.Model = "" THEN "Model not specified in the request"
    ELSE IF ~Resolve(d.Model) THEN "Service not found for the specified model"
    ELSE ""

\* generateCacheKey: body, err := io.ReadAll(r.Body) returns an error.  In the
\* handler r.Body is by then the bytes.Buffer GetReverseProxy has put in place
\* of the body, whose Read returns no error other than io.EOF: whatever the
\* request, the read does not fail, and the handler's answer to a key
\* derivation error (KeyErrorResponse) is sent to no client.
BodyBufferReadErr(q) == FALSE

\* generateCacheKey: sha256 over credential, path and body, hex encoded.  The
\* digest is modelled as the byte string fed to the hash.
generateCacheKey(cred, path, body) == cred \o path \o body

\* Responses.  Headers are functions from header names to values.
StatusBadRequest == 400
StatusInternalServerError == 500
HdrJson == [h \in {"Content-Type"} |-> "application/json"]
HdrFull ==
    [h \in {"Content-Type", "Content-Encoding", "X-Request-Id",
            "model-proxy-cache"} |->
        CASE h = "Content-Type" -> "application/json"
          [] h = "Content-Encoding" -> "br"
          [] h = "X-Request-Id" -> "id1"
          [] h = "model-proxy-cache" -> "hit"]
\* what the reverse proxy can leave in the recorder: upstream's response, or
\* its own 502 (no header, no body) when the round trip fails: upstream
\* cannot be reached, sseTransport.RoundTrip returns io.EOF, or the restored
\* body is shorter than the Content-Length of the request
UpstreamResponses ==
    { [Code |-> 200, Body |-> "x", Headers |-> HdrJson],
      [Code |-> 201, Body |-> "y", Headers |-> HdrFull],
      [Code |-> 404, Body |-> "nf", Headers |-> HdrJson],
      [Code |-> 502, Body |-> "", Headers |-> NoHeaders] }
NoResponse == [Code |-> 0, Body |-> "", Headers |-> NoHeaders]
NoRequest ==
    [cred |-> <<>>, path |-> <<>>, body |-> <<>>, first |-> 0, rerr |-> FALSE]
\* requests whose body cannot be read to its end: the read that fails is one
\* of the resolver's (the decoder's, through the tee)
RequestsIO ==
    { q \in [cred : {<<>>}, path : Paths,
             body : {<<"cut">>, <<"ja">>, <<"ja", "nl">>},
             first : 0..2, rerr : {TRUE}] :
        /\ (JsonDecode(q.body).err => q.first = Len(q.body))
        /\ q.first <= Len(q.body)
        /\ (~JsonDecode(q.body).err => q.first >= 1) }

\* rec.Code >= 200 && rec.Code < 300
IsSuccessNoUpper(code) == code >= 200
IsSuccess(code) == code >= 200 /\ code < 300

\* the headers stored with the entry: Content-Type and Content-Encoding when set
CachedHeaders(h) ==
    [n \in { m \in DOMAIN h \cap {"Content-Type", "Content-Encoding"} : h[m] # "" }
        |-> h[n]]

\* w.Header().Set("model-proxy-cache", "hit") and the cached headers added
HitHeaders(h) ==
    [n \in DOMAIN h \cup {"model-proxy-cache"} |->
        IF n = "model-proxy-cache" THEN "hit" ELSE h[n]]

\* fmt.Fprintln(w, msg): the message followed by a newline
Fprintln(msg) ==
    CASE msg = "decode" -> "decode\n"
      [] msg = "Model not specified in the request" ->
            "Model not specified in the request\n"
      [] msg = "Service not found for the specified model" ->
            "Service not found for the specified model\n"
      [] msg = "Failed to generate cache key" ->
            "Failed to generate cache key\n"

\* http.Error(w, msg, code)
ErrorResponse(code, msg) ==
    [Code |-> code, Body |-> Fprintln(msg),
     Headers |-> [h \in {"Content-Type", "X-Content-Type-Options"} |->
                    IF h = "Content-Type" THEN "text/plain; charset=utf-8"
                    ELSE "nosniff"]]

\* w.Write(..): `ok` is whether the write reached the client (it fails once
\* the client has gone away).
NoWrites == [writes |-> 0, wfail |-> FALSE, chunks |-> <<>>]
Written(l, ok) == [l EXCEPT !.writes = @ + 1, !.wfail = ~ok]

InitHandler ==
    /\ hpc = [r \in Reqs |-> "new"]
    /\ hreq = [r \in Reqs |-> NoRequest]
    /\ hbody = [r \in Reqs |-> <<>>]
    /\ hkey = [r \in Reqs |-> <<>>]
    /\ hrec = [r \in Reqs |-> NoResponse]
    /\ hout = [r \in Reqs |-> NoResponse]
    /\ hresp = [r \in Reqs |-> NoResponse]
    /\ hcalls = [r \in Reqs |-> 0]
    /\ hmiss = [r \in Reqs |-> FALSE]
    /\ doneBefore = [r \in Reqs |-> {}]
    /\ hloop = [r \in Reqs |-> NoWrites]

\* http.Error(w, "Failed to generate cache key",
\*            http.StatusInternalServerError)
KeyErrorResponse ==
    ErrorResponse(StatusInternalServerError, "Failed to generate cache key")

\* A request arrives (requests are numbered in their order of arrival):
\* resolver.GetReverseProxy(r), then generateCacheKey(r).  A resolver error
\* is answered with 400, a key derivation error with 500; both end the
\* request.
HandleBegin(r, q) ==
    /\ hpc[r] = "new"
    /\ \A o \in Reqs : o < r => hpc[o] # "new"
    /\ hreq' = [hreq EXCEPT ![r] = q]
    /\ doneBefore' = [doneBefore EXCEPT ![r] = { o \in Reqs : hpc[o] = "done" }]
    /\ IF GetReverseProxy(q) # ""
         THEN /\ hresp' = [hresp EXCEPT ![r] =
                              ErrorResponse(StatusBadRequest, GetReverseProxy(q))]
              /\ hpc' = [hpc EXCEPT ![r] = "done"]
              /\ UNCHANGED <<hbody, hkey>>
         ELSE IF BodyBufferReadErr(q)
         THEN /\ hresp' = [hresp EXCEPT ![r] = KeyErrorResponse]
              /\ hpc' = [hpc EXCEPT ![r] = "done"]
              /\ UNCHANGED <<hbody, hkey>>
         ELSE /\ hbody' = [hbody EXCEPT ![r] = TeeRestored(q)]
              /\ hkey' = [hkey EXCEPT ![r] =
                             generateCacheKey(q.cred, q.path, TeeRestored(q))]
              /\ hpc' = [hpc EXCEPT ![r] = "get"]
              /\ UNCHANGED hresp
    /\ UNCHANGED <<hrec, hout, hcalls, hmiss, hloop>>
    /\ UNCHANGED cacheVars

\* What the handler does with the result of cache.Get: on a hit the header
\* model-proxy-cache: hit and the cached headers are set on w and the entry
\* is about to be written (status 200, no WriteHeader call).
GetResult(r) ==
    /\ IF got'.found
         THEN /\ hout' = [hout EXCEPT ![r] =
                             [Code |-> 200, Body |-> got'.val.Body,
                              Headers |-> HitHeaders(got'.val.Headers)]]
              /\ hpc' = [hpc EXCEPT ![r] = "write"]
              /\ UNCHANGED hmiss
         ELSE /\ hmiss' = [hmiss EXCEPT ![r] = TRUE]
              /\ hpc' = [hpc EXCEPT ![r] = "getstream"]
              /\ UNCHANGED hout
    /\ UNCHANGED <<hreq, hbody, hkey, hrec, hresp, hcalls, doneBefore, hloop>>

\* cacheEntry, found := cache.Get(cacheKey)
HandleGet(r) ==
    /\ hpc[r] = "get"
    /\ Get(hkey[r])
    /\ GetResult(r)

\* w.Write(cacheEntry.Body) on a hit, w.WriteHeader(rec.Code) and
\* w.Write(responseBody) on a miss: the prepared response goes to the client
\* (a write error is ignored) and the handler returns.
HandleWrite(r, ok) ==
    /\ hpc[r] = "write"
    /\ hresp' = [hresp EXCEPT ![r] = hout[r]]
    /\ hloop' = [hloop EXCEPT ![r] = Written(@, ok)]
    /\ hpc' = [hpc EXCEPT ![r] = "done"]
    /\ UNCHANGED <<hreq, hbody, hkey, hrec, hout, hcalls, hmiss, doneBefore>>
    /\ UNCHANGED cacheVars

\* What the handler does with the result of cache.GetStream: the stream-hit
\* loop on a hit, the proxy on a miss.
GetStreamResult(r) ==
    /\ hpc' = [hpc EXCEPT ![r] = IF got'.found THEN "streamhit" ELSE "proxy"]
    /\ UNCHANGED <<hreq, hbody, hkey, hrec, hout, hresp, hcalls, hmiss,
                   doneBefore, hloop>>

\* streamCache, found := cache.GetStream(cacheKey)
HandleGetStream(r) ==
    /\ hpc[r] = "getstream"
    /\ GetStream(hkey[r])
    /\ GetStreamResult(r)

\* The stream-hit loop: for chunk := range streamCache.ReadChunks().
\* What the client gets besides the chunks: status 200 and the hit header.
StreamHitResponse ==
    [Code |-> 200, Body |-> "", Headers |-> HitHeaders(NoHeaders)]

\* the range loop receives the oldest buffered chunk
HandleStreamRecv(r) ==
    /\ hpc[r] = "streamhit"
    /\ dataChan # <<>>
    /\ dataChan' = ChanRest(dataChan)
    /\ hloop' = [hloop EXCEPT ![r].chunks = Append(@, ChanHead(dataChan))]
    /\ hpc' = [hpc EXCEPT ![r] = "streamwrite"]
    /\ UNCHANGED <<sCap, chanClosed, closed, mu, cpc, carg, rpc, delivered,
                   nextChunk, nCloseCalls, closedAtCall, passedOpen, callsBy,
                   nSignals, panicked>>
    /\ UNCHANGED <<hreq, hbody, hkey, hrec, hout, hresp, hcalls, hmiss,
                   doneBefore>>
    /\ UNCHANGED cacheVars

\* the same receive on an unbuffered channel: the chunk is taken from the
\* goroutine blocked in WriteChunk's send, which then returns
HandleStreamHandOff(p, r) ==
    /\ hpc[r] = "streamhit"
    /\ cpc[p] = "w_send"
    /\ ~chanClosed
    /\ sCap = 0
    /\ dataChan = <<>>
    /\ cpc' = [cpc EXCEPT ![p] = "idle"]
    /\ carg' = [carg EXCEPT ![p] = 0]
    /\ mu' = NoCaller
    /\ hloop' = [hloop EXCEPT ![r].chunks = Append(@, carg[p])]
    /\ hpc' = [hpc EXCEPT ![r] = "streamwrite"]
    /\ UNCHANGED <<sCap, dataChan, chanClosed, closed, rpc, delivered,
                   nextChunk, nCloseCalls, closedAtCall, passedOpen, callsBy,
                   nSignals, panicked>>
    /\ UNCHANGED <<hreq, hbody, hkey, hrec, hout, hresp, hcalls, hmiss,
                   doneBefore>>
    /\ UNCHANGED cacheVars

\* if writeErr != nil { break }
AfterWriteNoBreak(ok) == "streamhit"
AfterWrite(ok) == IF ok THEN "streamhit" ELSE "done"

\* w.Write(chunk), then Flush and the next iteration when the write
\* succeeded, or break and return when it failed
HandleStreamWrite(r, ok) ==
    /\ hpc[r] = "streamwrite"
    /\ hloop' = [hloop EXCEPT ![r] = Written(@, ok)]
    /\ hpc' = [hpc EXCEPT ![r] = AfterWrite(ok)]
    /\ hresp' = IF ok THEN hresp ELSE [hresp EXCEPT ![r] = StreamHitResponse]
    /\ UNCHANGED <<hreq, hbody, hkey, hrec, hout, hcalls, hmiss, doneBefore>>
    /\ UNCHANGED streamVars
    /\ UNCHANGED cacheVars

\* the loop ends on the closed, empty channel; the handler returns
HandleStreamEnd(r) ==
    /\ hpc[r] = "streamhit"
    /\ dataChan = <<>>
    /\ chanClosed
    /\ hpc' = [hpc EXCEPT ![r] = "done"]
    /\ hresp' = [hresp EXCEPT ![r] = StreamHitResponse]
    /\ UNCHANGED <<hreq, hbody, hkey, hrec, hout, hcalls, hmiss, doneBefore,
                   hloop>>
    /\ UNCHANGED streamVars
    /\ UNCHANGED cacheVars

\* proxy.ServeHTTP(rec, r): one round trip to the provider, captured.  The
\* outbound request shares the reader of r.Body; the Director's CountTokens
\* reads it to its end and the copy goes to the outbound request only, so
\* r.Body yields nothing afterwards.
HandleProxy(r, up) ==
    /\ hpc[r] = "proxy"
    /\ hcalls' = [hcalls EXCEPT ![r] = @ + 1]
    /\ hrec' = [hrec EXCEPT ![r] = up]
    /\ hbody' = [hbody EXCEPT ![r] = <<>>]
    /\ hpc' = [hpc EXCEPT ![r] = "store"]
    /\ UNCHANGED <<hreq, hkey, hout, hresp, hmiss, doneBefore, hloop>>
    /\ UNCHANGED cacheVars

\* responseBody, err := io.ReadAll(rec.Body): rec.Body is the recorder's
\* *bytes.Buffer, whose Read returns no error other than io.EOF.
RecorderReadErr(rec) == FALSE

\* the headers the handler sets when reading the recorder fails
ReadErrHeaders ==
    [h \in {"Content-Type", "Content-Encoding", "model-proxy-cache"} |->
        CASE h = "Content-Type" -> "application/json"
          [] h = "Content-Encoding" -> "br"
          [] h = "model-proxy-cache" -> "miss"]

\* The captured response is read back from the recorder and stored when its
\* status is a success; what is then to be written to the client is the
\* recorder's status, headers and body.
HandleStoreAsStream(r) ==
    /\ hpc[r] = "store"
    /\ IF IsSuccess(hrec[r].Code)
         THEN SetStream(hkey[r], 0)
         ELSE UNCHANGED cacheVars
    /\ hout' = [hout EXCEPT ![r] = hrec[r]]
    /\ hpc' = [hpc EXCEPT ![r] = "write"]
    /\ UNCHANGED <<hreq, hbody, hkey, hrec, hresp, hcalls, hmiss, doneBefore,
                   hloop>>
HandleStore(r) ==
    /\ hpc[r] = "store"
    /\ IF RecorderReadErr(hrec[r])
         THEN /\ hout' = [hout EXCEPT ![r] =
                             [Code |-> hrec[r].Code, Body |-> hrec[r].Body,
                              Headers |-> ReadErrHeaders]]
              /\ UNCHANGED cacheVars
         ELSE /\ IF IsSuccess(hrec[r].Code)
                   THEN Set(hkey[r], [Body |-> hrec[r].Body,
                                      Headers |-> CachedHeaders(hrec[r].Headers)])
                   ELSE UNCHANGED cacheVars
              /\ hout' = [hout EXCEPT ![r] = hrec[r]]
    /\ hpc' = [hpc EXCEPT ![r] = "write"]
    /\ UNCHANGED <<hreq, hbody, hkey, hrec, hresp, hcalls, hmiss, doneBefore,
                   hloop>>

\* The handler's cache calls as two steps each: the lock of the cache taken
\* on entry of the call, then the map access and the return.
HandlerWaits(r) ==
    UNCHANGED <<hreq, hbody, hkey, hrec, hout, hresp, hcalls, hmiss,
                doneBefore, hloop>>

\* cache.Get(cacheKey) has taken c.mu.RLock()
HandleGetLock(r) ==
    /\ hpc[r] = "get"
    /\ CacheRLock(RequestHandler(r))
    /\ hpc' = [hpc EXCEPT ![r] = "get_locked"]
    /\ HandlerWaits(r)

\* cache.Get(cacheKey) reads the map, unlocks and returns
HandleGetUnlock(r) ==
    /\ hpc[r] = "get_locked"
    /\ GetUnlock(RequestHandler(r), hkey[r])
    /\ GetResult(r)

\* cache.GetStream(cacheKey) has taken c.mu.RLock()
HandleGetStreamLock(r) ==
    /\ hpc[r] = "getstream"
    /\ CacheRLock(RequestHandler(r))
    /\ hpc' = [hpc EXCEPT ![r] = "getstream_locked"]
    /\ HandlerWaits(r)

\* cache.GetStream(cacheKey) reads the map, unlocks and returns
HandleGetStreamUnlock(r) ==
    /\ hpc[r] = "getstream_locked"
    /\ GetStreamUnlock(RequestHandler(r), hkey[r])
    /\ GetStreamResult(r)

\* the captured response will be stored: it was read and its status is 2xx
Storing(r) == ~RecorderReadErr(hrec[r]) /\ IsSuccess(hrec[r].Code)

\* the captured response is not stored; the handler goes on to the write
HandleNoStore(r) == ~Storing(r) /\ HandleStore(r)

\* cache.Set(cacheKey, ..) has taken c.mu.Lock()
HandleStoreLock(r) ==
    /\ hpc[r] = "store"
    /\ Storing(r)
    /\ CacheLock(RequestHandler(r))
    /\ hpc' = [hpc EXCEPT ![r] = "store_locked"]
    /\ HandlerWaits(r)

\* cache.Set(cacheKey, ..) writes the map, unlocks and returns
HandleStoreUnlock(r) ==
    /\ hpc[r] = "store_locked"
    /\ SetUnlock(RequestHandler(r), hkey[r],
                 [Body |-> hrec[r].Body,
                  Headers |-> CachedHeaders(hrec[r].Headers)])
    /\ hout' = [hout EXCEPT ![r] = hrec[r]]
    /\ hpc' = [hpc EXCEPT ![r] = "write"]
    /\ UNCHANGED <<hreq, hbody, hkey, hrec, hresp, hcalls, hmiss, doneBefore,
                   hloop>>

\* -------------------------------------------- generateCacheKey on its own
\* Credentials and paths as byte strings over a small alphabet; a URL path
\* starts with "/".
KeyAlphabet == {"/", "a"}
ByteStrings(n) == UNION { [1..m -> KeyAlphabet] : m \in 0..n }
KeyCredentials == ByteStrings(MaxKeyLen)
KeyPaths == { <<"/">> \o s : s \in ByteStrings(MaxKeyLen) }
KeyBodies == { <<"ja">>, <<"ja", "nl">> }
KeyTriples == [cred : KeyCredentials, path : KeyPaths, body : KeyBodies]
NoTriple == [cred |-> <<>>, path |-> <<>>, body |-> <<>>]

InitKey == kin = <<NoTriple, NoTriple>> /\ kout = <<>>

\* generateCacheKey(r) for two requests
DeriveKeys ==
    /\ kout = <<>>
    /\ kout' = << generateCacheKey(kin[1].cred, kin[1].path, kin[1].body),
                  generateCacheKey(kin[2].cred, kin[2].path, kin[2].body) >>
    /\ UNCHANGED kin

\* ------------------------------------- one proxied request, chunk by chunk
\* the chunks upstream emits before it closes the response: 1, 2, .., n
ChunkSeqs == { [i \in 1..n |-> i] : n \in 0..MaxChunks }
\* the request (stream: true in the envelope, Accept: text/event-stream) and
\* upstream's answer (status, chunks)
SSEInputs ==
    [stream : BOOLEAN, accept : BOOLEAN, code : {200, 404}, chunks : ChunkSeqs]
NoSSEInput == [stream |-> FALSE, accept |-> FALSE, code |-> 0, chunks |-> <<>>]

\* resp.Body.(http.Flusher): the bodies http.DefaultTransport returns have no
\* Flush method.
BodyIsFlusher == FALSE
\* the writer the reverse proxy writes to is the httptest recorder, and the
\* client's http.ResponseWriter behind it; both have a Flush method.
DownstreamIsFlusher == TRUE

\* the recorder and the client's writer before anything is written to them
NoCapture == [Code |-> 0, Body |-> <<>>, Headers |-> NoHeaders]
NoStatus == [Code |-> 0, Headers |-> NoHeaders]

InitSSE ==
    /\ sin = NoSSEInput
    /\ spc = "start"
    /\ srtErr = ""
    /\ swrapped = FALSE
    /\ supLeft = <<>>
    /\ supReads = 0
    /\ sbodyFlushes = 0
    /\ srec = NoCapture
    /\ sstatus = NoStatus
    /\ sclient = <<>>

InitUnit == InitKey /\ InitSSE

\* generateCacheKey(r) of the proxied request
SSEKey ==
    generateCacheKey(<<>>, <<"/">>, IF sin.stream THEN <<"js">> ELSE <<"ja">>)

\* sseTransport.RoundTrip: the inner round trip is made; for an event-stream
\* request the response body must be an http.Flusher, else io.EOF is
\* returned (and the reverse proxy answers 502 into the recorder).
SSERoundTrip ==
    /\ spc = "start"
    /\ IF sin.accept /\ ~BodyIsFlusher
         THEN /\ srtErr' = "EOF"
              /\ srec' = [Code |-> 502, Body |-> <<>>, Headers |-> NoHeaders]
              /\ spc' = "captured"
              /\ UNCHANGED swrapped
         ELSE /\ swrapped' = sin.accept
              /\ srec' = [Code |-> sin.code, Body |-> <<>>, Headers |-> HdrJson]
              /\ spc' = "copy"
              /\ UNCHANGED srtErr
    /\ UNCHANGED <<sin, supLeft, supReads, sbodyFlushes, sstatus, sclient>>
    /\ UNCHANGED cacheVars

\* The reverse proxy copies the response body into the recorder: one Read of
\* the upstream body (through sseReader.Read when wrapped, which then calls
\* Flush on the upstream body), one Write to the recorder.
SSERead ==
    /\ spc = "copy"
    /\ supLeft # <<>>
    /\ supReads' = supReads + 1
    /\ supLeft' = Tail(supLeft)
    /\ sbodyFlushes' = IF swrapped THEN sbodyFlushes + 1 ELSE sbodyFlushes
    /\ srec' = [srec EXCEPT !.Body = Append(@, Head(supLeft))]
    /\ UNCHANGED <<sin, spc, srtErr, swrapped, sstatus, sclient>>
    /\ UNCHANGED cacheVars

\* upstream has closed the response: proxy.ServeHTTP(rec, r) returns
SSEEof ==
    /\ spc = "copy"
    /\ supLeft = <<>>
    /\ spc' = "captured"
    /\ UNCHANGED <<sin, srtErr, swrapped, supLeft, supReads, sbodyFlushes, srec,
                   sstatus, sclient>>
    /\ UNCHANGED cacheVars

\* io.ReadAll(rec.Body); a captured 2xx response is stored as one entry
\* under the request's key.
SSEStore ==
    /\ spc = "captured"
    /\ IF IsSuccess(srec.Code)
         THEN Set(SSEKey, [Body |-> srec.Body,
                           Headers |-> CachedHeaders(srec.Headers)])
         ELSE UNCHANGED cacheVars
    /\ spc' = "write"
    /\ UNCHANGED <<sin, srtErr, swrapped, supLeft, supReads, sbodyFlushes, srec,
                   sstatus, sclient>>

\* the recorder's headers are copied to w, then w.WriteHeader(rec.Code) and
\* w.Write(responseBody): the client receives everything captured in one
\* write.
SSEWriteClient ==
    /\ spc = "write"
    /\ sstatus' = [Code |-> srec.Code, Headers |-> srec.Headers]
    /\ sclient' = Append(sclient, srec.Body)
    /\ spc' = "done"
    /\ UNCHANGED <<sin, srtErr, swrapped, supLeft, supReads, sbodyFlushes, srec>>
    /\ UNCHANGED cacheVars

\* ---------------------------------------------------------- specifications
\* SpecKey: generateCacheKey applied to any two triples.
InitSpecKey ==
    /\ InitCache /\ InitStream /\ InitHandler /\ InitSSE /\ sCap = 0
    /\ kin \in KeyTriples \X KeyTriples
    /\ kout = <<>>
NextKey == DeriveKeys /\ UNCHANGED <<cacheVars, streamVars, handlerVars, sseVars>>
SpecKey == InitSpecKey /\ [][NextKey]_vars

\* SpecSSE: one request that missed the cache, proxied to upstream.
InitSpecSSE ==
    /\ InitCache /\ InitStream /\ InitHandler /\ InitKey /\ sCap = 0
    /\ sin \in SSEInputs
    /\ supLeft = sin.chunks
    /\ spc = "start" /\ srtErr = "" /\ swrapped = FALSE
    /\ supReads = 0 /\ sbodyFlushes = 0
    /\ srec = NoCapture /\ sstatus = NoStatus /\ sclient = <<>>
NextSSE ==
    /\ \/ SSERoundTrip
       \/ SSERead
       \/ SSEEof
       \/ SSEStore
       \/ SSEWriteClient
    /\ UNCHANGED <<streamVars, handlerVars, keyVars>>
SpecSSE == InitSpecSSE /\ [][NextSSE]_vars

\* SpecCache: any sequence of Set, SetStream, Get, GetStream on one cache.
InitSpecCache == InitCache /\ InitStream /\ InitHandler /\ InitUnit /\ sCap = 0
NextCache ==
    \/ \E k \in Keys, v \in CacheValues :
          Set(k, v) /\ UNCHANGED <<streamVars, handlerVars, unitVars>>
    \/ \E k \in Keys, n \in 0..MaxCap :
          SetStream(k, n) /\ UNCHANGED <<streamVars, handlerVars, unitVars>>
    \/ \E k \in Keys : Get(k) /\ UNCHANGED <<streamVars, handlerVars, unitVars>>
    \/ \E k \in Keys : GetStream(k) /\ UNCHANGED <<streamVars, handlerVars, unitVars>>
SpecCache == InitSpecCache /\ [][NextCache]_vars

\* SpecStream: goroutines calling WriteChunk and Close on one StreamResponse
\* while consumers range over ReadChunks().
InitSpecStream == InitCache /\ InitStream /\ InitHandler /\ InitUnit
CallerStep(p) ==
    \/ CallWriteChunk(p)
    \/ WriteChunkLock(p)
    \/ WriteChunkCheck(p)
    \/ WriteChunkSend(p)
    \/ \E c \in Consumers : WriteChunkHandOff(p, c)
    \/ CallClose(p)
    \/ CloseLock(p)
    \/ CloseCheck(p)
    \/ CloseSetFlag(p)
ConsumerStep(c) ==
    \/ StartDrain(c)
    \/ Recv(c)
    \/ RecvEnd(c)
NextStream ==
    \/ \E p \in Callers : CallerStep(p) /\ UNCHANGED <<cacheVars, handlerVars, unitVars>>
    \/ \E c \in Consumers : ConsumerStep(c) /\ UNCHANGED <<cacheVars, handlerVars, unitVars>>
SpecStream == InitSpecStream /\ [][NextStream]_vars

\* The consumers keep draining: the range loop of a started consumer is never
\* suspended forever while a chunk or the end of the stream is available.
FairStream ==
    /\ \A c \in Consumers :
          WF_vars(Recv(c) /\ UNCHANGED <<cacheVars, handlerVars, unitVars>>)
    /\ \A c \in Consumers :
          WF_vars(RecvEnd(c) /\ UNCHANGED <<cacheVars, handlerVars, unitVars>>)
SpecStreamFair == SpecStream /\ FairStream

\* Spec: the server, one worker per inbound request, workers interleaved.
Init == InitCache /\ InitStream /\ InitHandler /\ InitUnit /\ sCap = 0
HandlerStep(r) ==
    \/ \E q \in Requests : HandleBegin(r, q)
    \/ HandleGet(r)
    \/ HandleGetStream(r)
    \/ \E up \in UpstreamResponses : HandleProxy(r, up)
    \/ HandleStore(r)
    \/ \E ok \in BOOLEAN : HandleWrite(r, ok)
Next == \E r \in Reqs : HandlerStep(r) /\ UNCHANGED <<streamVars, unitVars>>
Spec == Init /\ [][Next]_vars

\* SpecIO: the server receiving requests whose body cannot be read to its
\* end, by the resolver or by generateCacheKey.
NextIO ==
    \E r \in Reqs :
       /\ \/ \E q \in RequestsIO : HandleBegin(r, q)
          \/ HandleGet(r)
          \/ HandleGetStream(r)
          \/ \E up \in UpstreamResponses : HandleProxy(r, up)
          \/ HandleStore(r)
          \/ \E ok \in BOOLEAN : HandleWrite(r, ok)
       /\ UNCHANGED <<streamVars, unitVars>>
SpecIO == Init /\ [][NextIO]_vars

\* SpecReplay: the handler on a cache in which a producer goroutine registers
\* a stream (SetStream), writes chunks to it and closes it once; clients may
\* go away, so that writes to them fail.
ReplayRequests == { q \in Requests : q.body = <<"ja">> /\ q.cred = <<>> }
ReplayKeys ==
    { generateCacheKey(q.cred, q.path, TeeRestored(q)) : q \in ReplayRequests }
ReplayUpstream == { up \in UpstreamResponses : up.Body = "x" }
ReplayProducers == {"g1"}
RegisterStream(k) == nStreams = 0 /\ SetStream(k, sCap)
ProducerStep(p) ==
    /\ nStreams = 1
    /\ \/ CallWriteChunk(p)
       \/ WriteChunkLock(p)
       \/ WriteChunkCheck(p)
       \/ WriteChunkSend(p)
       \/ nCloseCalls = 0 /\ CallClose(p)
       \/ CloseLock(p)
       \/ CloseCheck(p)
       \/ CloseSetFlag(p)
NextReplay ==
    \/ \E k \in ReplayKeys :
          RegisterStream(k) /\ UNCHANGED <<streamVars, handlerVars, unitVars>>
    \/ \E p \in ReplayProducers :
          ProducerStep(p) /\ UNCHANGED <<cacheVars, handlerVars, unitVars>>
    \/ \E r \in Reqs :
          /\ \/ \E q \in ReplayRequests : HandleBegin(r, q)
             \/ HandleGet(r)
             \/ HandleGetStream(r)
             \/ \E up \in ReplayUpstream : HandleProxy(r, up)
             \/ HandleStore(r)
             \/ \E ok \in BOOLEAN : HandleWrite(r, ok)
          /\ UNCHANGED <<streamVars, unitVars>>
    \/ \E r \in Reqs :
          /\ \/ HandleStreamRecv(r)
             \/ \E p \in ReplayProducers : HandleStreamHandOff(p, r)
             \/ \E ok \in BOOLEAN : HandleStreamWrite(r, ok)
             \/ HandleStreamEnd(r)
          /\ UNCHANGED unitVars
SpecReplay == InitSpecStream /\ [][NextReplay]_vars

\* SpecLock: the handler and a producer goroutine that registers a stream and
\* writes chunks to it (it does not close it), with every call of the cache
\* in two steps, so that the lock of the cache is seen held.
LockUpstream == ReplayUpstream \cup { up \in UpstreamResponses : up.Code = 502 }
RegisterStreamLock == nStreams = 0 /\ CacheLock(AnyCaller)
RegisterStreamUnlock(k) == SetStreamUnlock(AnyCaller, k, sCap)
WriterStep(p) ==
    /\ nStreams = 1
    /\ \/ CallWriteChunk(p)
       \/ WriteChunkLock(p)
       \/ WriteChunkCheck(p)
       \/ WriteChunkSend(p)
NextLock ==
    \/ RegisterStreamLock /\ UNCHANGED <<streamVars, handlerVars, unitVars>>
    \/ \E k \in ReplayKeys :
          RegisterStreamUnlock(k)
             /\ UNCHANGED <<streamVars, handlerVars, unitVars>>
    \/ \E p \in ReplayProducers :
          WriterStep(p) /\ UNCHANGED <<cacheVars, handlerVars, unitVars>>
    \/ \E r \in Reqs :
          /\ \/ \E q \in ReplayRequests : HandleBegin(r, q)
             \/ HandleGetLock(r)
             \/ HandleGetUnlock(r)
             \/ HandleGetStreamLock(r)
             \/ HandleGetStreamUnlock(r)
             \/ \E up \in LockUpstream : HandleProxy(r, up)
             \/ HandleNoStore(r)
             \/ HandleStoreLock(r)
             \/ HandleStoreUnlock(r)
             \/ \E ok \in BOOLEAN : HandleWrite(r, ok)
          /\ UNCHANGED <<streamVars, unitVars>>
    \/ \E r \in Reqs :
          /\ \/ HandleStreamRecv(r)
             \/ \E p \in ReplayProducers : HandleStreamHandOff(p, r)
             \/ \E ok \in BOOLEAN : HandleStreamWrite(r, ok)
          /\ UNCHANGED unitVars
SpecLock == InitSpecStream /\ [][NextLock]_vars

\* SpecSeq: the same server with the requests arriving one after the other:
\* a request arrives only when no other is being handled.
NoneInFlight == \A o \in Reqs : hpc[o] \in {"new", "done"}
NextSeq ==
    \E r \in Reqs :
       /\ hpc[r] = "new" => NoneInFlight
       /\ HandlerStep(r)
       /\ UNCHANGED <<streamVars, unitVars>>
SpecSeq == Init /\ [][NextSeq]_vars

\* ------------------------------------------------------ ResponseCache claims

\* C3: a Get of key k reports found exactly when some Set of k has completed,
\* and then returns the value of the most recent Set of k, whole and unmerged.
C3_GetReturnsLastSet ==
    [][\A k \in Keys :
          Get(k) => /\ got'.found = (LastSetOf(k).n > 0)
                    /\ got'.val = LastSetOf(k).val]_vars

\* C3 witness: a key was set twice, to different values, and the Get that
\* followed returned the second value.
C3_Witness ==
    /\ got.op = "Get"
    /\ got.found
    /\ LastSetOf(got.key).n = 2
    /\ got.val = LastSetOf(got.key).val
    /\ got.val.Body = "v2"

\* C4: no key is present in both the buffered-entry map and the stream map.
C4_MapsDisjoint == DOMAIN nonStreams \cap DOMAIN streams = {}

\* ----------------------------------------------------- StreamResponse claims
DeliveredSet == UNION { Range(delivered[c]) : c \in Consumers }
InWrite(p) == cpc[p] \in {"w_lock", "w_check", "w_send"}
\* chunks whose WriteChunk found the stream Open and has returned
Accepted == { ch \in passedOpen : \A p \in Callers : carg[p] # ch }
OneProducer == Cardinality(callsBy) <= 1
OneConsumer == \E c \in Consumers : \A d \in Consumers \ {c} : rpc[d] = "idle"
RECURSIVE Ascending(_)
Ascending(S) ==
    IF S = {} THEN <<>>
    ELSE LET m == CHOOSE x \in S : \A y \in S : x <= y
         IN <<m>> \o Ascending(S \ {m})
\* the chunks written while the stream was Open, in write order
WrittenOpen == Ascending((1..nextChunk) \ closedAtCall)
\* the chunk of a WriteChunk call that has not returned yet
Pending ==
    Ascending({ carg[p] : p \in { q \in Callers : InWrite(q) } } \ closedAtCall)

\* C5: with one producer and one consumer the chunks delivered, followed by
\* those still buffered and the one being written, are exactly the chunks
\* written while Open, each once and in write order; the drain has ended only
\* if close has run and the buffer is empty, and once close has run and the
\* buffer is empty a ranging consumer's drain does end.
C5_DrainInOrderUntilClose ==
    /\ [](OneProducer /\ OneConsumer =>
            \A c \in Consumers :
               /\ (\A d \in Consumers \ {c} : rpc[d] = "idle") =>
                     delivered[c] \o dataChan \o Pending = WrittenOpen
               /\ rpc[c] = "done" =>
                     chanClosed /\ nCloseCalls > 0 /\ dataChan = <<>>)
    /\ \A c \in Consumers :
          (rpc[c] = "ranging" /\ chanClosed /\ dataChan = <<>>)
             ~> (rpc[c] = "done")

\* C5 witness: one producer wrote three chunks, closed in between, and the one
\* consumer has drained to the end, receiving two chunks.
C5_Witness ==
    /\ OneProducer /\ OneConsumer
    /\ nextChunk = 3
    /\ Cardinality(closedAtCall) = 1
    /\ \E c \in Consumers : rpc[c] = "done" /\ delivered[c] = <<1, 2>>

\* C6: a WriteChunk called on a Closed stream never reaches the channel send
\* (so it cannot block there, and while the stream is Closed no holder of the
\* mutex is blocked either), changes nothing of the stream on its way out,
\* raises no panic, and its chunk is never buffered or delivered.
C6_WriteAfterCloseNoOp ==
    /\ [](closed => \A p \in Callers : cpc[p] \notin {"w_send", "c_flag"})
    /\ [](\A ch \in closedAtCall : ch \notin Range(dataChan) \cup DeliveredSet)
    /\ [][\A p \in Callers :
            (carg[p] \in closedAtCall /\ cpc'[p] # cpc[p]) =>
               /\ cpc'[p] \in {"w_check", "idle"}
               /\ UNCHANGED <<dataChan, chanClosed, closed, delivered, panicked>>]_vars

\* C6 witness: a WriteChunk called after close has returned, and chunks have
\* been drained.
C6_Witness ==
    /\ \E ch \in closedAtCall : \A p \in Callers : carg[p] # ch
    /\ DeliveredSet # {}
    /\ ~panicked

\* C7: the stream never goes back from Closed to Open, the channel is closed
\* (end of stream signalled) at most once and exactly once when Closed, no
\* Close panics, and a Close that finds the stream Closed changes nothing.
C7_CloseIdempotent ==
    /\ [](nSignals <= 1 /\ ~panicked /\ (closed => chanClosed /\ nSignals = 1))
    /\ [][(closed => closed') /\ (chanClosed => chanClosed')]_vars
    /\ [][\A p \in Callers :
            (cpc[p] = "c_check" /\ closed /\ cpc'[p] # cpc[p]) =>
               /\ cpc'[p] = "idle"
               /\ UNCHANGED <<dataChan, chanClosed, closed, delivered,
                              nSignals, panicked>>]_vars

\* C7 witness: Close was called twice, both calls have returned, the stream
\* is Closed.
C7_Witness ==
    /\ nCloseCalls >= 2
    /\ \A p \in Callers : cpc[p] = "idle"
    /\ closed /\ nSignals = 1

\* C8: the buffer never holds more chunks than its capacity; a WriteChunk
\* returns from its send only when the buffer had room or a consumer took the
\* chunk; and every chunk accepted while Open is eventually delivered when a
\* consumer is draining.
C8_BackpressureNoDrop ==
    /\ [](Len(dataChan) <= sCap)
    /\ [][\A p \in Callers :
            (cpc[p] = "w_send" /\ cpc'[p] = "idle") =>
               \/ Len(dataChan) < sCap /\ dataChan' = Append(dataChan, carg[p])
               \/ \E c \in Consumers :
                     delivered'[c] = Append(delivered[c], carg[p])]_vars
    /\ \A ch \in 1..MaxWrites :
          (ch \in Accepted /\ \E c \in Consumers : rpc[c] = "ranging")
             ~> (ch \in DeliveredSet)

\* C8 witness: a WriteChunk is blocked on a full buffer after a consumer has
\* already drained a chunk.
C8_Witness ==
    /\ sCap > 0
    /\ Len(dataChan) = sCap
    /\ \E p \in Callers : cpc[p] = "w_send"
    /\ DeliveredSet # {}

\* ------------------------------------------------------------ handler claims
\* the content of a map at a key: <<entry>>, or <<>> when the key is absent
At(m, k) == IF k \in DOMAIN m THEN <<m[k]>> ELSE <<>>
StepOf(r) == hpc'[r] # hpc[r]
Stores(r) == hpc[r] = "store" /\ hpc'[r] = "write"
SameTriple(a, b) ==
    /\ hreq[a].cred = hreq[b].cred
    /\ hreq[a].path = hreq[b].path
    /\ hreq[a].body = hreq[b].body
\* a request the resolver must reject: malformed JSON, no model field, or a
\* model no provider is registered for
MustReject(q) == q.body = <<>> \/ q.body[1] \in {"bad", "nomodel", "unk"}

\* C1: no step of a request whose captured upstream status is not a 2xx
\* changes either cache map, up to and including the step that completes it;
\* the only steps that change the cache are the store steps of requests
\* whose captured status is 2xx, and they change only the entry of that
\* request's key.
C1_OnlySuccessStored ==
    /\ [][\A r \in Reqs :
            (StepOf(r) /\ hrec'[r].Code \notin 200..299) =>
                 nonStreams' = nonStreams /\ streams' = streams]_vars
    /\ [][(nonStreams' # nonStreams \/ streams' # streams) =>
            \E r \in Reqs :
               /\ Stores(r)
               /\ hrec[r].Code \in 200..299
               /\ streams' = streams
               /\ \A k \in (DOMAIN nonStreams \cup DOMAIN nonStreams') \ {hkey[r]} :
                     At(nonStreams', k) = At(nonStreams, k)]_vars

\* C1 witness: a request missed, got a 404 from upstream and has completed,
\* while the entry another request stored under the same key is still there.
C1_Witness ==
    \E r \in Reqs :
       /\ hpc[r] = "done" /\ hmiss[r]
       /\ hrec[r].Code = 404
       /\ hkey[r] \in DOMAIN nonStreams
       /\ nonStreams[hkey[r]].Body = "y"

\* C2: of two sequential requests with the same credential, path and body,
\* the first of which reached upstream and got a 2xx, the first has populated
\* the cache and the second returns the first's body with the header
\* model-proxy-cache: hit and without an upstream call.
C2_SecondRequestHits ==
    \A a, b \in Reqs :
       ( /\ a \in doneBefore[b]
         /\ hpc[b] = "done"
         /\ SameTriple(a, b)
         /\ hcalls[a] = 1
         /\ hrec[a].Code \in 200..299 ) =>
            /\ hkey[a] \in DOMAIN nonStreams
            /\ hresp[b].Body = hresp[a].Body
            /\ "model-proxy-cache" \in DOMAIN hresp[b].Headers
            /\ hresp[b].Headers["model-proxy-cache"] = "hit"
            /\ hcalls[b] = 0

\* C2 holds for the bodies that end with their first JSON value (every Read
\* sequence restores the whole body); it is the bytes after that value that
\* make the key depend on how the body was read.
C2_HoldsForWholeBodies ==
    \A a, b \in Reqs :
       ( /\ a \in doneBefore[b]
         /\ hpc[b] = "done"
         /\ SameTriple(a, b)
         /\ Len(hreq[a].body) = 1
         /\ hcalls[a] = 1
         /\ hrec[a].Code \in 200..299 ) =>
            /\ hkey[a] \in DOMAIN nonStreams
            /\ hresp[b].Body = hresp[a].Body
            /\ "model-proxy-cache" \in DOMAIN hresp[b].Headers
            /\ hresp[b].Headers["model-proxy-cache"] = "hit"
            /\ hcalls[b] = 0

\* C9: a request the resolver must reject is answered with a 4xx as soon as
\* it is handled, makes no upstream call, leaves both cache maps unchanged,
\* and no entry exists under the key derived from it.
C9_RejectedLeavesNoTrace ==
    /\ [](\A r \in Reqs :
            (hpc[r] # "new" /\ MustReject(hreq[r])) =>
               /\ hpc[r] = "done"
               /\ hresp[r].Code \in 400..499
               /\ hcalls[r] = 0
               /\ LET k == generateCacheKey(hreq[r].cred, hreq[r].path,
                                            hreq[r].body)
                  IN k \notin DOMAIN nonStreams \cup DOMAIN streams)
    /\ [][\A r \in Reqs :
            (hpc[r] = "new" /\ hpc'[r] # "new" /\ MustReject(hreq'[r])) =>
                 nonStreams' = nonStreams /\ streams' = streams]_vars

\* C9 witness: a request naming an unregistered model was answered with 400
\* after another request had populated the cache.
C9_Witness ==
    \E r \in Reqs :
       /\ hpc[r] = "done"
       /\ hreq[r].body = <<"unk">>
       /\ hresp[r].Code = 400
       /\ hcalls[r] = 0
       /\ doneBefore[r] # {}
       /\ DOMAIN nonStreams # {}

\* C10: two requests with the same key that both missed the cache and both
\* got a 2xx have each made their own upstream call and each returned their
\* own 2xx response, and the cache holds one buffered entry (no stream entry)
\* for the key: the value of the most recent Set for that key.
C10_ConcurrentMissesLastWriteWins ==
    \A a, b \in Reqs :
       ( /\ a # b
         /\ hmiss[a] /\ hmiss[b]
         /\ hkey[a] = hkey[b]
         /\ hpc[a] = "done" /\ hpc[b] = "done"
         /\ hrec[a].Code \in 200..299 /\ hrec[b].Code \in 200..299 ) =>
            /\ hcalls[a] = 1 /\ hcalls[b] = 1
            /\ hresp[a] = hrec[a] /\ hresp[b] = hrec[b]
            /\ hkey[a] \in DOMAIN nonStreams
            /\ hkey[a] \notin DOMAIN streams
            /\ nonStreams[hkey[a]] = LastSetOf(hkey[a]).val
            /\ LastSetOf(hkey[a]).n = 2

\* C10 witness: both requests missed on the same key, upstream answered them
\* differently, and the cache holds the answer of the one that stored last.
C10_Witness ==
    \E a, b \in Reqs :
       /\ a < b
       /\ hmiss[a] /\ hmiss[b]
       /\ hkey[a] = hkey[b]
       /\ hpc[a] = "done" /\ hpc[b] = "done"
       /\ hrec[a].Body = "y" /\ hrec[b].Body = "x"
       /\ hrec[a].Code \in 200..299 /\ hrec[b].Code \in 200..299
       /\ nonStreams[hkey[a]].Body = "y"

\* ------------------------------------------------- response header claims
\* a completed request whose response was written from a cache entry
ServedFromCache(r) ==
    hpc[r] = "done" /\ GetReverseProxy(hreq[r]) = "" /\ hcalls[r] = 0
HasHeader(resp, name) == name \in DOMAIN resp.Headers

\* C11: (refuted) every response served from the cache carries the header
\* model-proxy-cache with the value hit; every other response (rejected, or
\* proxied after a miss) carries no model-proxy-cache header; no response
\* carries the header with another value such as miss.
C11_HitHeaderOnlyOnHits ==
    \A r \in Reqs :
       hpc[r] = "done" =>
          /\ ServedFromCache(r) =>
                /\ HasHeader(hresp[r], "model-proxy-cache")
                /\ hresp[r].Headers["model-proxy-cache"] = "hit"
          /\ ~ServedFromCache(r) => ~HasHeader(hresp[r], "model-proxy-cache")

\* C12: (refuted) the response written on a buffered cache hit has the status
\* code and exactly the headers of the successful upstream response that was
\* returned to the client when the entry was stored, plus model-proxy-cache:
\* hit.
C12_HitReplaysStoredResponse ==
    \A a, b \in Reqs :
       ( /\ a \in doneBefore[b]
         /\ hmiss[a] /\ IsSuccess(hrec[a].Code)
         /\ ServedFromCache(b)
         /\ hkey[a] = hkey[b] ) =>
            /\ hresp[b].Code = hresp[a].Code
            /\ hresp[b].Headers = HitHeaders(hresp[a].Headers)

\* C17: (refuted) once GetReverseProxy and generateCacheKey have succeeded,
\* and until the request is proxied, the body the next stage reads is the
\* complete original body, also when bytes follow the first JSON value.
C17_BodyRewound ==
    \A r \in Reqs :
       (hpc[r] \in {"get", "getstream", "proxy"}) => hbody[r] = hreq[r].body

\* ------------------------------------------------------ cache key claims
\* C13: (refuted) two requests get the same key exactly when they agree on
\* credential, path and body: equal triples give equal keys, and triples that
\* differ in a component give different keys (the hash taken as injective on
\* the bytes it is fed).
C13_KeyDistinguishesTriples ==
    kout # <<>> => ((kin[1] = kin[2]) <=> (kout[1] = kout[2]))

\* ------------------------------------------------------- streaming claims
RECURSIVE Flatten(_)
Flatten(writes) ==
    IF writes = <<>> THEN <<>> ELSE Head(writes) \o Flatten(Tail(writes))

\* C14: (refuted) for a streaming request answered by upstream with chunks
\* and then a close, the client ends up with exactly those chunks in order,
\* and every chunk has been written to the client before the next one is
\* read from upstream.
C14_ChunksForwardedAsRead ==
    sin.stream =>
       /\ supReads >= 1 => Len(Flatten(sclient)) >= supReads - 1
       /\ spc = "done" => Flatten(sclient) = sin.chunks

\* C15: (refuted) for a request that accepts an event stream, the round trip
\* fails exactly when the downstream writer cannot flush, the failure is an
\* unsupported-operation failure, and a round trip that succeeds has its
\* body wrapped.
C15_FailsIffDownstreamCannotFlush ==
    (sin.accept /\ spc # "start") =>
       /\ (srtErr # "") <=> ~DownstreamIsFlusher
       /\ srtErr # "" => srtErr = "unsupported"
       /\ srtErr = "" => swrapped

\* ------------------------------------------------- drain-once claim
NoRepeat(s) == Cardinality(Range(s)) = Len(s)

\* C19: a stream is drained once.  With two consumers ranging over the same
\* ReadChunks() channel, every chunk is delivered at most once and to at most
\* one of them, so a consumer never sees a chunk the other one received; and
\* once the stream is closed and emptied nothing is delivered any more: a
\* consumer ranging over it receives nothing and its loop can only end.
C19_DrainedOnce ==
    /\ [](\A c \in Consumers : NoRepeat(delivered[c]))
    /\ [](\A c, d \in Consumers :
            c # d => Range(delivered[c]) \cap Range(delivered[d]) = {})
    /\ [](\A c \in Consumers :
            (rpc[c] = "ranging" /\ chanClosed /\ dataChan = <<>>) =>
                ENABLED RecvEnd(c))
    /\ [][(chanClosed /\ dataChan = <<>>) =>
            (delivered' = delivered /\ dataChan' = <<>>)]_vars

\* C19 witness: one consumer has received two chunks, the stream is closed
\* and emptied, and the other consumer is ranging over it with nothing
\* received.
C19_Witness ==
    \E c, d \in Consumers :
       /\ c # d
       /\ Len(delivered[c]) >= 2
       /\ rpc[d] = "ranging" /\ delivered[d] = <<>>
       /\ chanClosed /\ dataChan = <<>>

\* ----------------------------------------------------- cache lock claim
BlockedInWrite ==
    \E p \in Callers : cpc[p] = "w_send" /\ ~ChanHasRoom(dataChan, sCap)
BlockedDraining(r) == hpc[r] = "streamhit" /\ dataChan = <<>> /\ ~chanClosed
WaitingUpstream(r) == hpc[r] = "proxy"
WritingClient(r) == hpc[r] \in {"write", "streamwrite"}
InCacheCall(r) == hpc[r] \in {"get_locked", "getstream_locked", "store_locked"}

\* C18: the lock of the cache maps is held across the map read or write only.
\* A handler that is waiting for upstream, blocked draining a stream or in a
\* write to its client does not hold it, nor does the producer blocked in
\* WriteChunk on a full buffer.  Whoever holds it is inside a cache call,
\* past the lock and before the map access, and can take that step and
\* release the lock at once, whatever the other workers are blocked on: a
\* Get, GetStream, Set or SetStream waits for such holders only.
C18_CacheLockNotHeldAcrossIO ==
    /\ \A r \in Reqs :
          (WaitingUpstream(r) \/ BlockedDraining(r) \/ WritingClient(r)) =>
              RequestHandler(r) \notin Holders(cmu)
    /\ BlockedInWrite => AnyCaller \notin Holders(cmu)
    /\ \A r \in Reqs :
          RequestHandler(r) \in Holders(cmu) =>
             /\ InCacheCall(r)
             /\ ENABLED (HandleGetUnlock(r) \/ HandleGetStreamUnlock(r)
                           \/ HandleStoreUnlock(r))
    /\ AnyCaller \in Holders(cmu) =>
          /\ nStreams = 0
          /\ \A k \in ReplayKeys : ENABLED RegisterStreamUnlock(k)
    /\ Holders(cmu) \subseteq {AnyCaller} \cup { RequestHandler(r) : r \in Reqs }

\* C18 witness: a handler holds the lock inside its cache call while the
\* producer is blocked in WriteChunk on a full buffer and another handler is
\* waiting for upstream.
C18_Witness ==
    /\ BlockedInWrite
    /\ \E a, b \in Reqs :
          /\ WaitingUpstream(a)
          /\ RequestHandler(b) \in Holders(cmu)

\* --------------------------------------------------- client disconnect claim
\* C20: when a write to the client fails, the handler stops: the request is
\* over, and from then on it receives no further chunk from the stream,
\* makes no upstream call and attempts no further write.
C20_StopsAfterFailedWrite ==
    /\ [](\A r \in Reqs : hloop[r].wfail => hpc[r] = "done")
    /\ [][\A r \in Reqs :
            hloop[r].wfail =>
               /\ hloop'[r] = hloop[r]
               /\ hcalls'[r] = hcalls[r]
               /\ hpc'[r] = hpc[r]]_vars

\* C20 witness: the second write of a stream-hit loop failed while the
\* stream still holds a chunk, and the producer goes on.
C20_Witness ==
    \E r \in Reqs :
       /\ hloop[r].wfail
       /\ hloop[r].writes = 2 /\ Len(hloop[r].chunks) = 2
       /\ dataChan # <<>>

\* ------------------------------------------- StreamResponse mutex claims
\* C21: under every interleaving of WriteChunk and Close calls by concurrent
\* goroutines no call panics: the channel is closed at most once, no
\* goroutine is at the send of WriteChunk once the channel is closed, and
\* nothing enters the channel after it was closed.
C21_NoPanic ==
    /\ [](~panicked)
    /\ [](nSignals <= 1)
    /\ [](chanClosed => \A p \in Callers : cpc[p] # "w_send")
    /\ [][chanClosed => Len(dataChan') <= Len(dataChan)]_vars

\* C21 witness: both goroutines have made calls, the stream is closed, one
\* goroutine holds the mutex in a WriteChunk that is about to test the flag
\* and the other waits for the mutex in a second Close.
C21_Witness ==
    \E p, q \in Callers :
       /\ p # q
       /\ closed /\ chanClosed
       /\ nCloseCalls = 2
       /\ cpc[p] = "w_check" /\ mu = p
       /\ cpc[q] = "c_lock"

\* a WriteChunk that holds the mutex and cannot complete its send
BlockedSend(p) == cpc[p] = "w_send" /\ ~ChanHasRoom(dataChan, sCap)

\* C22: a WriteChunk blocked on a full buffer holds the stream's mutex and
\* the stream is Open; as long as no consumer takes a chunk, the stream
\* stays Open and no call in progress (the blocked one, a Close, another
\* WriteChunk) advances or returns.
C22_BlockedWriteHoldsMutex ==
    /\ [](\A p \in Callers :
            BlockedSend(p) => (mu = p /\ ~closed /\ ~chanClosed))
    /\ [][\A p \in Callers :
            (BlockedSend(p) /\ dataChan' = dataChan /\ delivered' = delivered) =>
               /\ closed' = closed /\ chanClosed' = chanClosed
               /\ mu' = mu
               /\ \A q \in Callers : cpc[q] # "idle" => cpc'[q] = cpc[q]]_vars

\* C22 witness: one goroutine is blocked in WriteChunk on a full buffer of
\* at least one chunk while the other waits in Close for the mutex.
C22_Witness ==
    \E p, q \in Callers :
       /\ p # q
       /\ BlockedSend(p) /\ sCap >= 1 /\ Len(dataChan) = sCap
       /\ cpc[q] = "c_lock"

\* ------------------------------------------------ no stream entry claim
\* C23: the handler never registers a stream: in every state reached by
\* handling requests the stream map is empty, every GetStream reports not
\* found and no request is in the stream-hit branch; a request that missed
\* and got a successful response has stored it as a buffered entry, and a
\* request served from the cache made no upstream call and replays such an
\* entry in one write.
C23_NoStreamEntry ==
    /\ streams = EmptyMap /\ nStreams = 0
    /\ got.op = "GetStream" => ~got.found
    /\ \A r \in Reqs :
          /\ hpc[r] \notin {"streamhit", "streamwrite"}
          /\ hloop[r].chunks = <<>>
          /\ ( /\ hpc[r] \in {"write", "done"}
               /\ hcalls[r] = 1
               /\ IsSuccess(hrec[r].Code) ) =>
                hkey[r] \in DOMAIN nonStreams
          /\ ServedFromCache(r) =>
                /\ hkey[r] \in DOMAIN nonStreams
                /\ hloop[r].writes = 1

\* C23 witness: a request missed, looked the key up in the stream map
\* without finding it, stored a successful response, and a later request
\* with the same key was served from that buffered entry.
C23_Witness ==
    \E a, b \in Reqs :
       /\ hpc[a] = "done" /\ hmiss[a] /\ hcalls[a] = 1
       /\ IsSuccess(hrec[a].Code)
       /\ a \in doneBefore[b]
       /\ hkey[a] = hkey[b]
       /\ ServedFromCache(b)
       /\ hresp[b].Body = hrec[a].Body

====
